---- MODULE Spec2Model ----
(***************************************************************************)
(* Model of pvt/helpers/src/models/types/TypesConverter.ts: the deployment *)
(* normalizers (toVaultDeployment ... toEncodedBasePoolRights) and the     *)
(* three typed-data signing calls (signSwapData, signJoinExactTokensData,  *)
(* signExitExactTokensData).                                               *)
(*                                                                         *)
(* JavaScript values that may be undefined are modelled as options: None   *)
(* is an absent / undefined value, Some(v) a present one.  A raw object is *)
(* a record whose optional fields are options.  JavaScript lists are       *)
(* sequences; entry i (0-based) of a list is element i + 1 of the sequence.*)
(* Fixed-point amounts (fp, FP_100_PCT) are counted in units of 1e16, so   *)
(* that 100% is 100.                                                       *)
(***************************************************************************)
EXTENDS Integers, Sequences, FiniteSets, TLC

VARIABLES
    op,          \* name of the normalizer that ran last ("none" before any)
    params,      \* the raw input object as the caller passed it
    paramsAfter, \* the same object as it is once the call has returned
    ret,         \* the outcome: [ok |-> value] or [error |-> message]
    pc,          \* signing call: "idle", "awaiting", "returned", "thrown"
    call,        \* the arguments of the signing call in progress
    requests,    \* the triples the call handed to signer._signTypedData
    response,    \* what the signer answered: [ok |-> signature] or [error |-> e]
    result       \* what the signing call completed with

vars == <<op, params, paramsAfter, ret, pc, call, requests, response, result>>

normVars == <<op, params, paramsAfter, ret>>
signVars == <<pc, call, requests, response, result>>

-----------------------------------------------------------------------------
(* Bounds of the model *)

MaxTokens == 2      \* token-list and per-token list lengths, 0..MaxTokens
MaxCount == 20      \* toTokenDeployments(N): N in 0..MaxCount
MaxItems == 2       \* toTokenDeployments(list): list lengths 0..MaxItems
MaxLen == 3         \* recipient / sender list lengths, 0..MaxLen
MaxBatch == 2       \* number of raw mints / approvals in a list input
MaxDuration == 1    \* durations supplied by the caller, 0..MaxDuration

-----------------------------------------------------------------------------
(* Values *)

None == <<>>
Some(v) == <<v>>
Val(o) == o[1]

Opt(S) == {None} \cup {Some(v) : v \in S}

\* !x for an optional number, boolean, string, and object / array
FalsyNum(o) == o = None \/ Val(o) = 0
FalsyBool(o) == o = None \/ Val(o) = FALSE
FalsyStr(o) == o = None \/ Val(o) = ""
FalsyObj(o) == o = None

ZERO_ADDRESS == "0x0000000000000000000000000000000000000000"
DAY == 86400
MONTH == 2592000
FP_100_PCT == 100

\* fp(0.1), fp(0.2)
FpTenth == 10
FpFifth == 20

Ok(v) == [ok |-> v]
Err(m) == [error |-> m]
IsErr(r) == DOMAIN r = {"error"}

SeqsUpTo(S, n) == UNION {[1..k -> S] : k \in 0..n}

-----------------------------------------------------------------------------
(* computeDecimalsFromIndex *)

\* a slip in the modulus: the series 0..17
computeDecimalsFromIndexMod18(i) == i % 18

computeDecimalsFromIndex(i) == i % 19

-----------------------------------------------------------------------------
(* toVaultDeployment *)

toVaultDeployment(p) ==
    [mocked |-> IF FalsyBool(p.mocked) THEN FALSE ELSE Val(p.mocked),
     admin |-> IF FalsyStr(p.admin) THEN p.from ELSE p.admin,
     pauseWindowDuration |->
         IF FalsyNum(p.pauseWindowDuration) THEN 0 ELSE Val(p.pauseWindowDuration),
     bufferPeriodDuration |->
         IF FalsyNum(p.bufferPeriodDuration) THEN 0 ELSE Val(p.bufferPeriodDuration),
     maxYieldValue |->
         IF FalsyNum(p.maxYieldValue) THEN FP_100_PCT ELSE Val(p.maxYieldValue),
     maxAUMValue |->
         IF FalsyNum(p.maxAUMValue) THEN FP_100_PCT ELSE Val(p.maxAUMValue)]

(* toRawVaultDeployment *)

toRawVaultDeployment(p) ==
    [mocked |-> IF p.fromFactory # None THEN ~Val(p.fromFactory) ELSE TRUE,
     admin |-> IF FalsyStr(p.admin) THEN p.from ELSE p.admin,
     pauseWindowDuration |->
         IF FalsyNum(p.pauseWindowDuration) THEN 0 ELSE Val(p.pauseWindowDuration),
     bufferPeriodDuration |->
         IF FalsyNum(p.bufferPeriodDuration) THEN 0 ELSE Val(p.bufferPeriodDuration)]

-----------------------------------------------------------------------------
(* toAddress, toAddresses *)

\* An Account is a string, [kind |-> "string", s |-> ...], or an object
\* exposing an address, [kind |-> "object", address |-> ...].
AccountFalsy(to) == to = None \/ (Val(to).kind = "string" /\ Val(to).s = "")

toAddress(to) ==
    IF AccountFalsy(to) THEN ZERO_ADDRESS
    ELSE IF Val(to).kind = "string" THEN Val(to).s ELSE Val(to).address

toAddresses(to) == [i \in 1..Len(to) |-> toAddress(Some(to[i]))]

-----------------------------------------------------------------------------
(* toSafeguardPoolDeployment *)

\* list[i] in JavaScript: undefined past the end of the list
At(list, i) == IF i \in 1..Len(list) THEN Some(list[i]) ELSE None

\* Array(n).fill(v)
Fill(n, v) == [i \in 1..n |-> v]

\* line 72: if (!params.owner) params.owner = ZERO_ADDRESS, an assignment to
\* the caller's object
ownerDefaulted(p) ==
    IF AccountFalsy(p.owner)
    THEN [p EXCEPT !.owner = Some([kind |-> "string", s |-> ZERO_ADDRESS])]
    ELSE p

\* a slip in the map of lines 87-94: one entry per oracle, not per token
OracleParametersPerOracle(tokens, oracles, maxOracleTimeouts, stableTokens, flexibleOracles) ==
    [i \in 1..Len(oracles) |->
        [oracle |-> At(oracles, i),
         maxTimeout |-> At(maxOracleTimeouts, i),
         isStable |-> At(stableTokens, i),
         isFlexibleOracle |-> At(flexibleOracles, i)]]

\* lines 87-94: tokens.map((t, i) => ...)
OracleParameters(tokens, oracles, maxOracleTimeouts, stableTokens, flexibleOracles) ==
    [i \in 1..Len(tokens) |->
        [oracle |-> At(oracles, i),
         maxTimeout |-> At(maxOracleTimeouts, i),
         isStable |-> At(stableTokens, i),
         isFlexibleOracle |-> At(flexibleOracles, i)]]

toSafeguardPoolDeployment(p) ==
    LET q == ownerDefaulted(p)
        tokens == IF FalsyObj(p.tokens) THEN <<>> ELSE Val(p.tokens)
        n == Len(tokens)
        oracles == IF FalsyObj(p.oracles) THEN Fill(n, ZERO_ADDRESS) ELSE Val(p.oracles)
        maxOracleTimeouts ==
            IF FalsyObj(p.maxOracleTimeouts) THEN Fill(n, 1 * DAY)
            ELSE Val(p.maxOracleTimeouts)
        stableTokens ==
            IF FalsyObj(p.stableTokens) THEN Fill(n, TRUE) ELSE Val(p.stableTokens)
        flexibleOracles ==
            IF FalsyObj(p.flexibleOracles) THEN Fill(n, FALSE) ELSE Val(p.flexibleOracles)
        pauseWindowDuration ==
            IF FalsyNum(p.pauseWindowDuration) THEN 3 * MONTH
            ELSE Val(p.pauseWindowDuration)
        bufferPeriodDuration ==
            IF FalsyNum(p.bufferPeriodDuration) THEN MONTH
            ELSE Val(p.bufferPeriodDuration)
        assetManagers ==
            IF FalsyObj(p.assetManagers) THEN Fill(n, ZERO_ADDRESS)
            ELSE Val(p.assetManagers)
        maxPerfDev == IF FalsyNum(p.maxPerfDev) THEN FpTenth ELSE Val(p.maxPerfDev)
        maxTargetDev == IF FalsyNum(p.maxTargetDev) THEN FpFifth ELSE Val(p.maxTargetDev)
        perfUpdateInterval ==
            IF FalsyNum(p.perfUpdateInterval) THEN 1 * DAY ELSE Val(p.perfUpdateInterval)
        yearlyFees == IF FalsyNum(p.yearlyFees) THEN 0 ELSE Val(p.yearlyFees)
        mustAllowlistLPs ==
            IF p.mustAllowlistLPs = None THEN FALSE ELSE Val(p.mustAllowlistLPs)
        oracleParameters ==
            OracleParameters(tokens, oracles, maxOracleTimeouts, stableTokens,
                             flexibleOracles)
        safeguardParameters ==
            [signer |-> p.signer,
             maxPerfDev |-> maxPerfDev,
             maxTargetDev |-> maxTargetDev,
             perfUpdateInterval |-> perfUpdateInterval,
             maxPriceDev |-> p.maxPriceDev,
             yearlyFees |-> yearlyFees,
             mustAllowlistLPs |-> mustAllowlistLPs]
    IN  [tokens |-> tokens,
         assetManagers |-> assetManagers,
         pauseWindowDuration |-> pauseWindowDuration,
         bufferPeriodDuration |-> bufferPeriodDuration,
         owner |-> toAddress(q.owner),
         from |-> p.from,
         oracleParameters |-> oracleParameters,
         safeguardParameters |-> safeguardParameters]

-----------------------------------------------------------------------------
(* toTokenDeployment, toTokenDeployments *)

\* A raw token deployment is a symbol, [kind |-> "string", s |-> ...], or an
\* object, [kind |-> "object", name, symbol, decimals, from], whose fields
\* are options.
EmptyToken == [kind |-> "object", name |-> None, symbol |-> None,
               decimals |-> None, from |-> None]

\* x ?? d
Nullish(o, d) == IF o = None THEN d ELSE Val(o)

toTokenDeployment(p) ==
    LET q == IF p.kind = "string" THEN [EmptyToken EXCEPT !.symbol = Some(p.s)] ELSE p
    IN  [from |-> q.from,
         name |-> Nullish(q.name, "Token"),
         symbol |-> Nullish(q.symbol, "TKN"),
         decimals |-> Nullish(q.decimals, 18)]

\* Object.assign({}, defaults, param): the properties param has replace the
\* defaults
Assign(defaults, param) ==
    [kind |-> "object",
     name |-> IF param.name = None THEN defaults.name ELSE param.name,
     symbol |-> IF param.symbol = None THEN defaults.symbol ELSE param.symbol,
     decimals |-> IF param.decimals = None THEN defaults.decimals ELSE param.decimals,
     from |-> IF param.from = None THEN defaults.from ELSE param.from]

\* the defaults of entry i (0-based), line 133
TokenDefaults(i, from, varyDecimals) ==
    [kind |-> "object",
     symbol |-> Some("TK" \o ToString(i)),
     name |-> Some("Token " \o ToString(i)),
     decimals |-> Some(IF varyDecimals THEN computeDecimalsFromIndex(i) ELSE 18),
     from |-> from]

\* A raw tokens deployment is a count, [kind |-> "number", n |-> N], a list,
\* [kind |-> "list", items |-> <<...>>], or one raw token deployment.
toTokenDeployments(p, from, varyDecimals) ==
    LET list == IF p.kind = "number" THEN Fill(p.n, EmptyToken)
                ELSE IF p.kind = "list" THEN p.items
                ELSE <<p>>
    IN  [j \in 1..Len(list) |->
            LET i == j - 1
                param == IF list[j].kind = "string"
                         THEN [EmptyToken EXCEPT !.symbol = Some(list[j].s),
                                                 !.from = from]
                         ELSE list[j]
            IN  toTokenDeployment(Assign(TokenDefaults(i, from, varyDecimals), param))]

-----------------------------------------------------------------------------
(* toTokenMints *)

\* A recipient or sender is singular, [isArray |-> FALSE, v |-> option], or
\* a list, [isArray |-> TRUE, list |-> <<...>>].  A raw mint or approval is
\* one object, [kind |-> "single", to, amount, from], or a list of them,
\* [kind |-> "list", items |-> <<...>>].
MintError == "Inconsistent mint sender length"

\* a slip in line 169: every record takes the first sender of the list
toTokenMintFirstSender(p) ==
    IF ~p.to.isArray
    THEN IF p.from.isArray THEN Err(MintError)
         ELSE Ok(<<[to |-> p.to.v, amount |-> p.amount, from |-> p.from.v]>>)
    ELSE IF p.from.isArray /\ Len(p.to.list) # Len(p.from.list) THEN Err(MintError)
    ELSE Ok([i \in 1..Len(p.to.list) |->
                [to |-> Some(p.to.list[i]),
                 amount |-> p.amount,
                 from |-> IF p.from.isArray THEN At(p.from.list, 1) ELSE p.from.v]])

\* a slip in line 168: the length check is missing
toTokenMintUnchecked(p) ==
    IF ~p.to.isArray
    THEN IF p.from.isArray THEN Err(MintError)
         ELSE Ok(<<[to |-> p.to.v, amount |-> p.amount, from |-> p.from.v]>>)
    ELSE Ok([i \in 1..Len(p.to.list) |->
                [to |-> Some(p.to.list[i]),
                 amount |-> p.amount,
                 from |-> IF p.from.isArray THEN At(p.from.list, i) ELSE p.from.v]])

\* lines 161-169: one raw mint
toTokenMint(p) ==
    IF ~p.to.isArray
    THEN IF p.from.isArray THEN Err(MintError)
         ELSE Ok(<<[to |-> p.to.v, amount |-> p.amount, from |-> p.from.v]>>)
    ELSE IF p.from.isArray /\ Len(p.to.list) # Len(p.from.list) THEN Err(MintError)
    ELSE Ok([i \in 1..Len(p.to.list) |->
                [to |-> Some(p.to.list[i]),
                 amount |-> p.amount,
                 from |-> IF p.from.isArray THEN At(p.from.list, i) ELSE p.from.v]])

\* line 159: params.flatMap(this.toTokenMints); the first element that throws
\* ends the call
RECURSIVE FlatMapMints(_)
FlatMapMints(items) ==
    IF items = <<>> THEN Ok(<<>>)
    ELSE LET head == toTokenMint(Head(items))
         IN  IF IsErr(head) THEN head
             ELSE LET rest == FlatMapMints(Tail(items))
                  IN  IF IsErr(rest) THEN rest ELSE Ok(head.ok \o rest.ok)

toTokenMints(p) ==
    IF p.kind = "list" THEN FlatMapMints(p.items) ELSE toTokenMint(p)

-----------------------------------------------------------------------------
(* toTokenApprovals *)

\* lines 178-183: one raw approval
RECURSIVE ApprovalsOf(_, _, _)
ApprovalsOf(to, amount, from) ==
    IF to = <<>> THEN <<>>
    ELSE (IF from.isArray
          THEN [j \in 1..Len(from.list) |->
                   [to |-> Head(to), amount |-> amount, from |-> Some(from.list[j])]]
          ELSE <<[to |-> Head(to), amount |-> amount, from |-> from.v]>>)
         \o ApprovalsOf(Tail(to), amount, from)

\* a slip in lines 181-183: sender j is paired with recipient j only
toTokenApprovalPaired(p) ==
    LET to == IF p.to.isArray THEN [i \in 1..Len(p.to.list) |-> Some(p.to.list[i])]
              ELSE <<p.to.v>>
    IN  [i \in 1..Len(to) |->
            [to |-> to[i], amount |-> p.amount,
             from |-> IF p.from.isArray THEN At(p.from.list, i) ELSE p.from.v]]

toTokenApproval(p) ==
    LET to == IF p.to.isArray THEN [i \in 1..Len(p.to.list) |-> Some(p.to.list[i])]
              ELSE <<p.to.v>>
    IN  ApprovalsOf(to, p.amount, p.from)

\* line 176: params.flatMap(this.toTokenApprovals)
RECURSIVE FlatMapApprovals(_)
FlatMapApprovals(items) ==
    IF items = <<>> THEN <<>>
    ELSE toTokenApproval(Head(items)) \o FlatMapApprovals(Tail(items))

\* no statement of toTokenApprovals throws
toTokenApprovals(p) ==
    Ok(IF p.kind = "list" THEN FlatMapApprovals(p.items) ELSE toTokenApproval(p))

-----------------------------------------------------------------------------
(* toBytes32, toEncodedBasePoolRights *)

\* A hex string "0x..." is the sequence of its hex digits (each 0..15) after
\* the prefix, most significant first.

\* the hex digits of a positive number, no leading zero
RECURSIVE HexDigits(_)
HexDigits(value) ==
    IF value = 0 THEN <<>> ELSE Append(HexDigits(value \div 16), value % 16)

\* ethers.utils.hexlify of a number: an even count of digits, "0x00" for 0
Hexlify(value) ==
    LET hex == HexDigits(value)
    IN  IF hex = <<>> THEN <<0, 0>>
        ELSE IF Len(hex) % 2 = 1 THEN <<0>> \o hex ELSE hex

\* ethers.utils.hexZeroPad(value, length): zeros in front up to length bytes
HexZeroPad(hexy, length) ==
    [i \in 1..(2 * length - Len(hexy)) |-> 0] \o hexy

toBytes32(value) == HexZeroPad(Hexlify(value), 32)

\* a slip in lines 206-211: the weights of the last two flags exchanged
toEncodedBasePoolRightsSwapped(r) ==
    LET v1 == IF ~FalsyBool(r.canTransferOwnership) THEN 1 ELSE 0
        v2 == IF ~FalsyBool(r.canChangeSwapFee) THEN v1 + 4 ELSE v1
        v3 == IF ~FalsyBool(r.canUpdateMetadata) THEN v2 + 2 ELSE v2
    IN  toBytes32(v3)

toEncodedBasePoolRights(r) ==
    LET v1 == IF ~FalsyBool(r.canTransferOwnership) THEN 1 ELSE 0
        v2 == IF ~FalsyBool(r.canChangeSwapFee) THEN v1 + 2 ELSE v1
        v3 == IF ~FalsyBool(r.canUpdateMetadata) THEN v2 + 4 ELSE v2
    IN  toBytes32(v3)

-----------------------------------------------------------------------------
(* The inputs the calls are made with *)

Accounts == {"a1", "a2"}
Durations == 0..MaxDuration
Fractions == {0, 50}

\* <<"x1", ..., "xk">>
Numbered(prefix, k) == [i \in 1..k |-> prefix \o ToString(i)]

RawVaultDeployments ==
    [mocked : Opt(BOOLEAN),
     admin : Opt({"admin"}),
     from : Opt({"deployer"}),
     pauseWindowDuration : Opt(Durations),
     bufferPeriodDuration : Opt(Durations),
     maxYieldValue : Opt(Fractions),
     maxAUMValue : Opt(Fractions)]

RawVaultOfPool ==
    [fromFactory : Opt(BOOLEAN),
     admin : Opt({"admin"}),
     from : Opt({"deployer"}),
     pauseWindowDuration : Opt(Durations),
     bufferPeriodDuration : Opt(Durations)]

AccountValues ==
    {[kind |-> "string", s |-> ""], [kind |-> "string", s |-> "0xOwner"],
     [kind |-> "object", address |-> "0xSigner"]}

\* the scalar fields of a raw pool deployment: all absent, all zero, all set
PoolScalars ==
    {[pauseWindowDuration |-> d, bufferPeriodDuration |-> d, signer |-> g,
      maxPerfDev |-> f, maxTargetDev |-> f, maxPriceDev |-> f,
      perfUpdateInterval |-> d, yearlyFees |-> f, mustAllowlistLPs |-> m,
      from |-> g] :
        <<d, f, g, m>> \in {<<None, None, None, None>>,
                            <<Some(0), Some(0), Some("signer"), Some(FALSE)>>,
                            <<Some(MaxDuration), Some(50), Some("signer"), Some(TRUE)>>}}

Lengths == Opt(0..MaxTokens)

\* a supplied per-token list: the first len of all; None when the field is
\* absent
ListOf(len, all) ==
    IF len = None THEN None ELSE Some(SubSeq(all, 1, Val(len)))

TokenValues == Numbered("token", MaxTokens)
OracleValues == Numbered("oracle", MaxTokens)
TimeoutValues == [i \in 1..MaxTokens |-> 60 * i]
StableValues == [i \in 1..MaxTokens |-> i % 2 = 0]
FlexibleValues == [i \in 1..MaxTokens |-> i % 2 = 1]
ManagerValues == Numbered("manager", MaxTokens)

RawPool(sc, owner, nt, no, nm, ns, nf, na) ==
    [tokens |-> ListOf(nt, TokenValues),
     oracles |-> ListOf(no, OracleValues),
     maxOracleTimeouts |-> ListOf(nm, TimeoutValues),
     stableTokens |-> ListOf(ns, StableValues),
     flexibleOracles |-> ListOf(nf, FlexibleValues),
     assetManagers |-> ListOf(na, ManagerValues),
     pauseWindowDuration |-> sc.pauseWindowDuration,
     bufferPeriodDuration |-> sc.bufferPeriodDuration,
     signer |-> sc.signer,
     maxPerfDev |-> sc.maxPerfDev,
     maxTargetDev |-> sc.maxTargetDev,
     maxPriceDev |-> sc.maxPriceDev,
     perfUpdateInterval |-> sc.perfUpdateInterval,
     yearlyFees |-> sc.yearlyFees,
     mustAllowlistLPs |-> sc.mustAllowlistLPs,
     owner |-> owner,
     from |-> sc.from]

RawTokens ==
    {[kind |-> "string", s |-> "ABC"]} \cup
    [kind : {"object"}, name : Opt({"My Token"}), symbol : Opt({"MTK"}),
     decimals : Opt({0}), from : Opt({"minter"})]

Single(v) == [isArray |-> FALSE, v |-> v]
List(l) == [isArray |-> TRUE, list |-> l]

Recipients == {Single(Some(a)) : a \in Accounts}
              \cup {List(l) : l \in SeqsUpTo(Accounts, MaxLen)}
Senders == {Single(o) : o \in Opt(Accounts)}
           \cup {List(l) : l \in SeqsUpTo(Accounts, MaxLen)}
Amounts == Opt({5})

RawTransfers ==
    [kind : {"single"}, to : Recipients, amount : Amounts, from : Senders]

\* the elements of a list input: lists of distinct accounts, one amount
BatchTransfers ==
    [kind : {"single"},
     to : {Single(Some("a1"))} \cup {List(Numbered("r", k)) : k \in 0..MaxLen},
     amount : {Some(5)},
     from : {Single(None), Single(Some("a2"))}
            \cup {List(Numbered("s", k)) : k \in 0..MaxLen}]

RawTransferLists ==
    {[kind |-> "list", items |-> l] : l \in SeqsUpTo(BatchTransfers, MaxBatch)}

BasePoolRights ==
    [canTransferOwnership : Opt(BOOLEAN), canChangeSwapFee : Opt(BOOLEAN),
     canUpdateMetadata : Opt(BOOLEAN)]

-----------------------------------------------------------------------------
(* One action per normalizer: the caller passes params, the call returns   *)
(* ret and leaves the caller's object as paramsAfter.                      *)

Called(name, p, after, r) ==
    /\ op' = name
    /\ params' = p
    /\ paramsAfter' = after
    /\ ret' = r
    /\ UNCHANGED signVars

ToVaultDeployment ==
    /\ op = "none"
    /\ \E p \in RawVaultDeployments :
        Called("toVaultDeployment", p, p, Ok(toVaultDeployment(p)))

ToRawVaultDeployment ==
    /\ op = "none"
    /\ \E p \in RawVaultOfPool :
        Called("toRawVaultDeployment", p, p, Ok(toRawVaultDeployment(p)))

ToSafeguardPoolDeployment ==
    /\ op = "none"
    /\ \E sc \in PoolScalars, owner \in Opt(AccountValues),
       nt, no, nm, ns, nf, na \in Lengths :
        LET p == RawPool(sc, owner, nt, no, nm, ns, nf, na)
        IN  Called("toSafeguardPoolDeployment", p, ownerDefaulted(p),
                   Ok(toSafeguardPoolDeployment(p)))

ToTokenDeployments ==
    /\ op = "none"
    /\ \E from \in Opt({"deployer"}), varyDecimals \in BOOLEAN :
        \E p \in {[kind |-> "number", n |-> n] : n \in 0..MaxCount}
                 \cup {[kind |-> "list", items |-> l] : l \in SeqsUpTo(RawTokens, MaxItems)}
                 \cup RawTokens :
            LET a == [raw |-> p, from |-> from, varyDecimals |-> varyDecimals]
            IN  Called("toTokenDeployments", a, a,
                       Ok(toTokenDeployments(p, from, varyDecimals)))

ToTokenDeployment ==
    /\ op = "none"
    /\ \E p \in RawTokens :
        Called("toTokenDeployment", p, p, Ok(toTokenDeployment(p)))

ToTokenMints ==
    /\ op = "none"
    /\ \E p \in RawTransfers \cup RawTransferLists :
        Called("toTokenMints", p, p, toTokenMints(p))

ToTokenApprovals ==
    /\ op = "none"
    /\ \E p \in RawTransfers \cup RawTransferLists :
        Called("toTokenApprovals", p, p, toTokenApprovals(p))

ToAddress ==
    /\ op = "none"
    /\ \E to \in Opt(AccountValues) :
        Called("toAddress", to, to, Ok(toAddress(to)))

ToEncodedBasePoolRights ==
    /\ op = "none"
    /\ \E r \in BasePoolRights :
        Called("toEncodedBasePoolRights", r, r, Ok(toEncodedBasePoolRights(r)))

Init ==
    /\ op = "none"
    /\ params = None
    /\ paramsAfter = None
    /\ ret = None
    /\ pc = "idle"
    /\ call = None
    /\ requests = <<>>
    /\ response = None
    /\ result = None

Next ==
    \/ ToVaultDeployment
    \/ ToRawVaultDeployment
    \/ ToSafeguardPoolDeployment
    \/ ToTokenDeployments
    \/ ToTokenDeployment
    \/ ToTokenMints
    \/ ToTokenApprovals
    \/ ToAddress
    \/ ToEncodedBasePoolRights

Spec == Init /\ [][Next]_vars

-----------------------------------------------------------------------------
(* signSwapData, signJoinExactTokensData, signExitExactTokensData *)

DOMAIN_NAME == "Pool Safeguard"
DOMAIN_VERSION == "1"

\* SafeguardPoolJoinKind.EXACT_TOKENS_IN_FOR_BPT_OUT and
\* SafeguardPoolExitKind.BPT_IN_FOR_EXACT_TOKENS_OUT, by name
EXACT_TOKENS_IN_FOR_BPT_OUT == "EXACT_TOKENS_IN_FOR_BPT_OUT"
BPT_IN_FOR_EXACT_TOKENS_OUT == "BPT_IN_FOR_EXACT_TOKENS_OUT"

Field(n, t) == [name |-> n, type |-> t]

Domain(chainId, contractAddress) ==
    [name |-> DOMAIN_NAME,
     version |-> DOMAIN_VERSION,
     chainId |-> chainId,
     verifyingContract |-> contractAddress]

\* the triple signSwapData hands to the signer
SwapRequest(c) ==
    [domain |-> Domain(c.chainId, c.contractAddress),
     types |-> [SwapStruct |->
                  <<Field("kind", "uint8"), Field("poolId", "bytes32"),
                    Field("tokenIn", "address"), Field("tokenOut", "address"),
                    Field("amount", "uint256"), Field("recipient", "address"),
                    Field("deadline", "uint256"), Field("swapData", "bytes")>>],
     value |-> [kind |-> c.kind,
                poolId |-> c.poolId,
                tokenIn |-> c.tokenIn,
                tokenOut |-> c.tokenOut,
                amount |-> c.amount,
                recipient |-> c.recipient,
                deadline |-> c.deadline,
                swapData |-> c.swapData]]

\* the triple signJoinExactTokensData hands to the signer
JoinRequest(c) ==
    [domain |-> Domain(c.chainId, c.contractAddress),
     types |-> [JoinExactTokensStruct |->
                  <<Field("kind", "uint8"), Field("poolId", "bytes32"),
                    Field("recipient", "address"), Field("deadline", "uint256"),
                    Field("joinData", "bytes")>>],
     value |-> [kind |-> EXACT_TOKENS_IN_FOR_BPT_OUT,
                poolId |-> c.poolId,
                recipient |-> c.recipient,
                deadline |-> c.deadline,
                joinData |-> c.joinData]]

\* a slip in line 347: the join kind copied into the exit value
ExitRequestJoinKind(c) ==
    [domain |-> Domain(c.chainId, c.contractAddress),
     types |-> [ExitExactTokensStruct |->
                  <<Field("kind", "uint8"), Field("poolId", "bytes32"),
                    Field("recipient", "address"), Field("deadline", "uint256"),
                    Field("exitData", "bytes")>>],
     value |-> [kind |-> EXACT_TOKENS_IN_FOR_BPT_OUT,
                poolId |-> c.poolId,
                recipient |-> c.recipient,
                deadline |-> c.deadline,
                exitData |-> c.exitData]]

\* the triple signExitExactTokensData hands to the signer
ExitRequest(c) ==
    [domain |-> Domain(c.chainId, c.contractAddress),
     types |-> [ExitExactTokensStruct |->
                  <<Field("kind", "uint8"), Field("poolId", "bytes32"),
                    Field("recipient", "address"), Field("deadline", "uint256"),
                    Field("exitData", "bytes")>>],
     value |-> [kind |-> BPT_IN_FOR_EXACT_TOKENS_OUT,
                poolId |-> c.poolId,
                recipient |-> c.recipient,
                deadline |-> c.deadline,
                exitData |-> c.exitData]]

\* a retry wrapped around the await: a rejection sends the request again
AfterAwaitRetry(answer, reqs) ==
    IF IsErr(answer)
    THEN [pc |-> "awaiting", result |-> None, requests |-> Append(reqs, reqs[1])]
    ELSE [pc |-> "returned", result |-> answer, requests |-> reqs]

\* const signature = await signer._signTypedData(...); return signature;
\* a rejection of the awaited promise is thrown to the caller
AfterAwait(answer, reqs) ==
    [pc |-> IF IsErr(answer) THEN "thrown" ELSE "returned",
     result |-> answer,
     requests |-> reqs]

ChainIds == {1, 31337}
Addresses == {"0xA", "0xB"}
SwapKinds == {"GIVEN_IN", "GIVEN_OUT"}
PoolIds == {"pool1", "pool2"}
BigNumbers == {0, 7}
Payloads == {"0x", "0xbeef"}
Signatures == {"0xsig1", "0xsig2"}
SignerErrors == {"user rejected signing", "unsupported operation"}

SwapCalls ==
    [fn : {"signSwapData"}, chainId : ChainIds, contractAddress : Addresses,
     kind : SwapKinds, poolId : PoolIds, tokenIn : Addresses, tokenOut : Addresses,
     amount : BigNumbers, recipient : Addresses, deadline : BigNumbers,
     swapData : Payloads]

JoinCalls ==
    [fn : {"signJoinExactTokensData"}, chainId : ChainIds,
     contractAddress : Addresses, poolId : PoolIds, recipient : Addresses,
     deadline : BigNumbers, joinData : Payloads]

ExitCalls ==
    [fn : {"signExitExactTokensData"}, chainId : ChainIds,
     contractAddress : Addresses, poolId : PoolIds, recipient : Addresses,
     deadline : BigNumbers, exitData : Payloads]

\* the call runs up to its await: it has handed req to the signer
Awaiting(c, req) ==
    /\ pc' = "awaiting"
    /\ call' = c
    /\ requests' = Append(requests, req)
    /\ UNCHANGED <<response, result>>
    /\ UNCHANGED normVars

SignSwapData ==
    /\ pc = "idle"
    /\ \E c \in SwapCalls : Awaiting(c, SwapRequest(c))

SignJoinExactTokensData ==
    /\ pc = "idle"
    /\ \E c \in JoinCalls : Awaiting(c, JoinRequest(c))

SignExitExactTokensData ==
    /\ pc = "idle"
    /\ \E c \in ExitCalls : Awaiting(c, ExitRequest(c))

\* the signer answers and the call resumes after its await
Resumed(answer) ==
    LET next == AfterAwait(answer, requests)
    IN  /\ response' = answer
        /\ pc' = next.pc
        /\ result' = next.result
        /\ requests' = next.requests
        /\ UNCHANGED call
        /\ UNCHANGED normVars

SignerResolves ==
    /\ pc = "awaiting"
    /\ \E sig \in Signatures : Resumed(Ok(sig))

SignerRejects ==
    /\ pc = "awaiting"
    /\ \E e \in SignerErrors : Resumed(Err(e))

SignNext ==
    \/ SignSwapData
    \/ SignJoinExactTokensData
    \/ SignExitExactTokensData
    \/ SignerResolves
    \/ SignerRejects

SignSpec == Init /\ [][SignNext]_vars

-----------------------------------------------------------------------------
(* Properties *)

\* C1: toTokenDeployments(N, from, varyDecimals) returns exactly N entries,
\* and entry i (0 <= i < N) has symbol "TK{i}", name "Token {i}", deployer
\* from, and decimals 18, or i mod 19 when varyDecimals is set.
CountDeployments ==
    (op = "toTokenDeployments" /\ params.raw.kind = "number") =>
        /\ Len(ret.ok) = params.raw.n
        /\ \A i \in 0..(params.raw.n - 1) :
              ret.ok[i + 1] =
                  [from |-> params.from,
                   name |-> "Token " \o ToString(i),
                   symbol |-> "TK" \o ToString(i),
                   decimals |-> IF params.varyDecimals THEN i % 19 ELSE 18]

\* a count past 19 with varying decimals: the series has wrapped to 0
CountDeploymentsWitness ==
    /\ op = "toTokenDeployments"
    /\ params.raw.kind = "number"
    /\ params.raw.n >= 20
    /\ params.varyDecimals
    /\ ret.ok[19].decimals = 18
    /\ ret.ok[20].decimals = 0
    /\ ret.ok[20].symbol = "TK19"

BothLists(p) == p.to.isArray /\ p.from.isArray
Mismatch(p) == BothLists(p) /\ Len(p.to.list) # Len(p.from.list)

\* C2: for one raw mint whose recipient is a list of n and whose sender is
\* singular or a list of n, toTokenMints returns n records in recipient
\* order, record i being {to[i], amount, from[i] or from}; with both singular
\* it returns the one record {to, amount, from}.
MintFanOut ==
    (op = "toTokenMints" /\ params.kind = "single") =>
        /\ (params.to.isArray /\ ~Mismatch(params)) =>
              /\ ~IsErr(ret)
              /\ Len(ret.ok) = Len(params.to.list)
              /\ \A i \in 1..Len(params.to.list) :
                    ret.ok[i] =
                        [to |-> Some(params.to.list[i]),
                         amount |-> params.amount,
                         from |-> IF params.from.isArray
                                  THEN Some(params.from.list[i])
                                  ELSE params.from.v]
        /\ (~params.to.isArray /\ ~params.from.isArray) =>
              ret = Ok(<<[to |-> params.to.v, amount |-> params.amount,
                          from |-> params.from.v]>>)

\* two recipients, two different senders, two records
MintFanOutWitness ==
    /\ op = "toTokenMints"
    /\ params.kind = "single"
    /\ BothLists(params)
    /\ params.to.list = <<"a1", "a2">>
    /\ params.from.list = <<"a2", "a1">>
    /\ ~IsErr(ret)
    /\ Len(ret.ok) = 2
    /\ ret.ok[2].from = Some("a1")

\* C3: toTokenMints raises "Inconsistent mint sender length", and returns no
\* records, when recipient and sender are lists of unequal length; in a list
\* of raw mints one such element fails the whole call.
MintMismatchRaises ==
    op = "toTokenMints" =>
        /\ (params.kind = "single" /\ Mismatch(params)) => ret = Err(MintError)
        /\ (params.kind = "list"
            /\ \E k \in 1..Len(params.items) : Mismatch(params.items[k])) =>
              ret = Err(MintError)

\* a list whose first mint is well formed and whose second is 2 against 3
MintMismatchWitness ==
    /\ op = "toTokenMints"
    /\ params.kind = "list"
    /\ Len(params.items) = 2
    /\ ~Mismatch(params.items[1])
    /\ params.items[1].to.isArray
    /\ Len(params.items[1].to.list) = 1
    /\ BothLists(params.items[2])
    /\ Len(params.items[2].to.list) = 2
    /\ Len(params.items[2].from.list) = 3
    /\ ret = Err(MintError)

RecipientsOf(p) ==
    IF p.to.isArray THEN [i \in 1..Len(p.to.list) |-> Some(p.to.list[i])]
    ELSE <<p.to.v>>
SendersOf(p) ==
    IF p.from.isArray THEN [j \in 1..Len(p.from.list) |-> Some(p.from.list[j])]
    ELSE <<p.from.v>>

RECURSIVE PairCount(_)
PairCount(items) ==
    IF items = <<>> THEN 0
    ELSE Len(RecipientsOf(Head(items))) * Len(SendersOf(Head(items)))
         + PairCount(Tail(items))

Payload(c) ==
    IF c.fn = "signSwapData" THEN c.swapData
    ELSE IF c.fn = "signJoinExactTokensData" THEN c.joinData
    ELSE c.exitData
PayloadOf(c, v) ==
    IF c.fn = "signSwapData" THEN v.swapData
    ELSE IF c.fn = "signJoinExactTokensData" THEN v.joinData
    ELSE v.exitData

\* C5: the triple handed to the signer has the domain {"Pool Safeguard",
\* "1", the caller's chainId, the caller's contract address}; the value's
\* poolId, recipient, deadline and payload are the caller's; the value's
\* kind is the caller's for swap, EXACT_TOKENS_IN_FOR_BPT_OUT for join and
\* BPT_IN_FOR_EXACT_TOKENS_OUT for exit.
SignedTriple ==
    pc # "idle" =>
        LET r == requests[1]
        IN  /\ r.domain = [name |-> "Pool Safeguard", version |-> "1",
                           chainId |-> call.chainId,
                           verifyingContract |-> call.contractAddress]
            /\ r.value.poolId = call.poolId
            /\ r.value.recipient = call.recipient
            /\ r.value.deadline = call.deadline
            /\ PayloadOf(call, r.value) = Payload(call)
            /\ call.fn = "signSwapData" => r.value.kind = call.kind
            /\ call.fn = "signJoinExactTokensData" =>
                  r.value.kind = "EXACT_TOKENS_IN_FOR_BPT_OUT"
            /\ call.fn = "signExitExactTokensData" =>
                  r.value.kind = "BPT_IN_FOR_EXACT_TOKENS_OUT"

\* an exit call has handed its triple to the signer
SignedTripleWitness ==
    /\ pc = "awaiting"
    /\ call.fn = "signExitExactTokensData"
    /\ call.chainId = 31337
    /\ requests[1].domain.chainId = 31337
    /\ requests[1].value.kind = "BPT_IN_FOR_EXACT_TOKENS_OUT"

\* C6: a sign call issues exactly one request to the signer and never a
\* second; it completes with exactly the signature the signer returned, or
\* with exactly the failure the signer rejected with.
SingleRequest ==
    /\ pc = "idle" => requests = <<>>
    /\ pc # "idle" => Len(requests) = 1
    /\ pc = "awaiting" => (response = None /\ result = None)
    /\ pc = "returned" => (response \in {Ok(g) : g \in Signatures} /\ result = response)
    /\ pc = "thrown" => (response \in {Err(e) : e \in SignerErrors} /\ result = response)

\* the signer rejected and the call failed with that rejection
SingleRequestWitness ==
    /\ pc = "thrown"
    /\ Len(requests) = 1
    /\ response = Err("user rejected signing")
    /\ result = Err("user rejected signing")

\* the number a hex string denotes, most significant digit first
RECURSIVE HexValue(_)
HexValue(digits) ==
    IF digits = <<>> THEN 0
    ELSE 16 * HexValue(SubSeq(digits, 1, Len(digits) - 1)) + digits[Len(digits)]

Bit(o) == IF o = Some(TRUE) THEN 1 ELSE 0
RightsValue(r) ==
    Bit(r.canTransferOwnership) + 2 * Bit(r.canChangeSwapFee)
    + 4 * Bit(r.canUpdateMetadata)

\* C7: toEncodedBasePoolRights returns the 32-byte zero-padded big-endian hex
\* encoding of the integer whose bits 0, 1, 2 are canTransferOwnership,
\* canChangeSwapFee, canUpdateMetadata (absent counting as false); the
\* integer is in 0..7 and different flag combinations encode differently.
RightsEncoding ==
    op = "toEncodedBasePoolRights" =>
        /\ Len(ret.ok) = 64
        /\ \A k \in 1..64 : ret.ok[k] \in 0..15
        /\ HexValue(ret.ok) = RightsValue(params)
        /\ HexValue(ret.ok) \in 0..7
        /\ \A r \in BasePoolRights :
              (<<Bit(r.canTransferOwnership), Bit(r.canChangeSwapFee),
                 Bit(r.canUpdateMetadata)>>
               # <<Bit(params.canTransferOwnership), Bit(params.canChangeSwapFee),
                   Bit(params.canUpdateMetadata)>>)
              => toEncodedBasePoolRights(r) # ret.ok

\* {canTransferOwnership: true, canUpdateMetadata: true} encodes 5
RightsEncodingWitness ==
    /\ op = "toEncodedBasePoolRights"
    /\ params = [canTransferOwnership |-> Some(TRUE), canChangeSwapFee |-> None,
                 canUpdateMetadata |-> Some(TRUE)]
    /\ ret.ok = [k \in 1..64 |-> IF k = 64 THEN 5 ELSE 0]

Normalizers ==
    {"toVaultDeployment", "toRawVaultDeployment", "toSafeguardPoolDeployment",
     "toTokenDeployments", "toTokenDeployment", "toTokenMints",
     "toTokenApprovals", "toAddress"}

\* C8: every normalizer leaves the raw input the caller passed unchanged,
\* each field having the same value, or absence, after the call as before.
NormalizersPure ==
    op \in Normalizers => paramsAfter = params

ElementAt(list, i) == IF i <= Len(list) THEN Some(list[i]) ELSE None

\* C9: with N tokens (0 when tokens is absent) toSafeguardPoolDeployment
\* returns exactly N oracleParameters; a list field that is absent gives
\* every entry its default (zero address, one day, true, false) and absent
\* assetManagers gives N zero addresses; a list field that is supplied gives
\* entry i element i of the supplied list.
PoolListDefaults ==
    op = "toSafeguardPoolDeployment" =>
        LET n == IF params.tokens = None THEN 0 ELSE Len(Val(params.tokens))
            o == ret.ok.oracleParameters
        IN  /\ Len(o) = n
            /\ params.assetManagers = None =>
                  ret.ok.assetManagers = [i \in 1..n |-> ZERO_ADDRESS]
            /\ \A i \in 1..n :
                  /\ o[i].oracle =
                        IF params.oracles = None THEN Some(ZERO_ADDRESS)
                        ELSE ElementAt(Val(params.oracles), i)
                  /\ o[i].maxTimeout =
                        IF params.maxOracleTimeouts = None THEN Some(DAY)
                        ELSE ElementAt(Val(params.maxOracleTimeouts), i)
                  /\ o[i].isStable =
                        IF params.stableTokens = None THEN Some(TRUE)
                        ELSE ElementAt(Val(params.stableTokens), i)
                  /\ o[i].isFlexibleOracle =
                        IF params.flexibleOracles = None THEN Some(FALSE)
                        ELSE ElementAt(Val(params.flexibleOracles), i)

\* two tokens, oracles supplied, every other list field absent
PoolListDefaultsWitness ==
    /\ op = "toSafeguardPoolDeployment"
    /\ params.tokens # None
    /\ Len(Val(params.tokens)) = 2
    /\ params.oracles = Some(<<"oracle1", "oracle2">>)
    /\ params.maxOracleTimeouts = None
    /\ params.stableTokens = None
    /\ params.flexibleOracles = None
    /\ params.assetManagers = None
    /\ ret.ok.assetManagers = <<ZERO_ADDRESS, ZERO_ADDRESS>>
    /\ ret.ok.oracleParameters[2] =
          [oracle |-> Some("oracle2"), maxTimeout |-> Some(86400),
           isStable |-> Some(TRUE), isFlexibleOracle |-> Some(FALSE)]

\* C10: toVaultDeployment gives each of mocked, admin, pauseWindowDuration,
\* bufferPeriodDuration, maxYieldValue, maxAUMValue its default (false, the
\* input's from, 0, 0, 100%, 100%) when it is missing, and the caller's
\* value when the caller supplies it.
VaultDefaults ==
    op = "toVaultDeployment" =>
        /\ ret.ok.mocked =
              IF params.mocked = None THEN FALSE ELSE Val(params.mocked)
        /\ ret.ok.admin =
              IF params.admin = None THEN params.from ELSE params.admin
        /\ ret.ok.pauseWindowDuration =
              IF params.pauseWindowDuration = None THEN 0
              ELSE Val(params.pauseWindowDuration)
        /\ ret.ok.bufferPeriodDuration =
              IF params.bufferPeriodDuration = None THEN 0
              ELSE Val(params.bufferPeriodDuration)
        /\ ret.ok.maxYieldValue =
              IF params.maxYieldValue = None THEN FP_100_PCT
              ELSE Val(params.maxYieldValue)
        /\ ret.ok.maxAUMValue =
              IF params.maxAUMValue = None THEN FP_100_PCT
              ELSE Val(params.maxAUMValue)

====
